---- MODULE Spec2Model ----
(***************************************************************************)
(* Chat intent-matching engine of the services marketplace backend:        *)
(* chatService.processMessage and chatController.sendMessage over the      *)
(* flat-file JSON store, with textMatcher, ChatResponse and aiChatConfig.  *)
(*                                                                         *)
(* A JavaScript string is a sequence of characters, each character a       *)
(* one-element TLA+ string; "U+0301" and "U+0303" stand for the combining  *)
(* acute accent and the combining tilde that String.normalize('NFD')       *)
(* produces.  A JSON document is a record whose DOMAIN holds exactly the   *)
(* fields the document defines.  Weights are kept in tenths.               *)
(***************************************************************************)
EXTENDS Integers, Sequences, FiniteSets, TLC

VARIABLES store, entry, message, result, lookups, stages, failed, call, procs, db

vars == <<store, entry, message, result, lookups, stages, failed, call, procs, db>>

-----------------------------------------------------------------------------
(* Characters and strings                                                  *)

Space == " "

CombiningMarks == {"U+0301", "U+0303"}

LowerCaseOf ==
  ("A" :> "a") @@ ("B" :> "b") @@ ("C" :> "c") @@ ("D" :> "d") @@
  ("E" :> "e") @@ ("F" :> "f") @@ ("G" :> "g") @@ ("H" :> "h") @@
  ("I" :> "i") @@ ("J" :> "j") @@ ("K" :> "k") @@ ("L" :> "l") @@
  ("M" :> "m") @@ ("N" :> "n") @@ ("O" :> "o") @@ ("P" :> "p") @@
  ("Q" :> "q") @@ ("R" :> "r") @@ ("S" :> "s") @@ ("T" :> "t") @@
  ("U" :> "u") @@ ("V" :> "v") @@ ("W" :> "w") @@ ("X" :> "x") @@
  ("Y" :> "y") @@ ("Z" :> "z") @@ ("Á" :> "á") @@ ("É" :> "é") @@
  ("Í" :> "í") @@ ("Ó" :> "ó") @@ ("Ú" :> "ú") @@ ("Ñ" :> "ñ")

Decomposition ==
  ("á" :> <<"a", "U+0301">>) @@ ("é" :> <<"e", "U+0301">>) @@
  ("í" :> <<"i", "U+0301">>) @@ ("ó" :> <<"o", "U+0301">>) @@
  ("ú" :> <<"u", "U+0301">>) @@ ("ñ" :> <<"n", "U+0303">>)

RECURSIVE Flatten(_)
Flatten(ss) == IF ss = <<>> THEN <<>> ELSE Head(ss) \o Flatten(Tail(ss))

toLowerCase(text) ==
  [i \in 1..Len(text) |->
     IF text[i] \in DOMAIN LowerCaseOf THEN LowerCaseOf[text[i]] ELSE text[i]]

normalizeNFD(text) ==
  Flatten([i \in 1..Len(text) |->
     IF text[i] \in DOMAIN Decomposition THEN Decomposition[text[i]]
     ELSE <<text[i]>>])

\* Mutant of stripMarks: only the acute accent is removed.
stripMarksAcuteOnly(text) == SelectSeq(text, LAMBDA c : c # "U+0301")

stripMarks(text) == SelectSeq(text, LAMBDA c : c \notin CombiningMarks)

RECURSIVE trimStart(_)
trimStart(text) ==
  IF text # <<>> /\ Head(text) = Space THEN trimStart(Tail(text)) ELSE text

RECURSIVE trimEnd(_)
trimEnd(text) ==
  IF text # <<>> /\ text[Len(text)] = Space
  THEN trimEnd(SubSeq(text, 1, Len(text) - 1)) ELSE text

trim(text) == trimEnd(trimStart(text))

\* Mutant of normalizeText: the text is trimmed before the marks are removed.
normalizeTextTrimFirst(text) == stripMarks(trim(normalizeNFD(toLowerCase(text))))

normalizeText(text) == trim(stripMarks(normalizeNFD(toLowerCase(text))))

\* String.prototype.includes: needle occurs as a contiguous substring.
includes(text, needle) ==
  \E i \in 0..(Len(text) - Len(needle)) :
     SubSeq(text, i + 1, i + Len(needle)) = needle

\* text.split(/\s+/): the pieces between maximal runs of whitespace; a run at
\* either end leaves an empty piece there, and "" splits into one empty piece.
RECURSIVE splitFrom(_, _)
splitFrom(text, piece) ==
  IF text = <<>> THEN <<piece>>
  ELSE IF Head(text) = Space
       THEN <<piece>> \o splitFrom(trimStart(text), <<>>)
       ELSE splitFrom(Tail(text), Append(piece, Head(text)))

splitWhitespace(text) == splitFrom(text, <<>>)

hasSpace(text) == \E i \in 1..Len(text) : text[i] = Space

-----------------------------------------------------------------------------
(* JavaScript values                                                       *)

Has(doc, f) == f \in DOMAIN doc

Str(chars) == [type |-> "string", value |-> chars]

NotAString(t) == [type |-> t, value |-> <<>>]

\* !message for the values a request body can carry here
falsy(v) == v.type = "undefined" \/ (v.type = "string" /\ v.value = <<>>)

-----------------------------------------------------------------------------
(* aiChatConfig                                                            *)

\* MATCH_THRESHOLD 0.6, in tenths
MATCH_THRESHOLD == 6

MAX_RESULTS_CATEGORIES == 3

MAX_RESULTS_SERVICES == 5

MAX_RESULTS_SUGGESTIONS == 4

\* NLP.WEIGHTS 1.0 / 0.7 / 0.4, in tenths
EXACT_MATCH == 10

PARTIAL_MATCH == 7

RELATED_TERM == 4

\* minScore 0.5 of findBestMatches, in tenths
MIN_SCORE == 5

DEFAULT_RESPONSES ==
  << "No he encontrado información específica sobre eso. ¿Podrías darme más detalles?",
     "No tengo una respuesta para eso. ¿Te gustaría ver las categorías disponibles?",
     "No estoy seguro de entender tu consulta. ¿Qué tipo de servicio estás buscando?",
     "Parece que no tenemos esa categoría específica. ¿Puedo mostrarte alternativas similares?" >>

\* A suggestion is a template and the name filled into it (empty for a fixed one).
Fixed(s) == [text |-> s, name |-> <<>>]

DEFAULT_SUGGESTIONS ==
  << Fixed("Ver todas las categorías"),
     Fixed("Servicios más populares"),
     Fixed("¿Cómo funciona la plataforma?"),
     Fixed("Necesito un desarrollo web"),
     Fixed("Busco diseño gráfico") >>

GREETING_PHRASES ==
  << <<"h", "o", "l", "a">>, <<"h", "e", "l", "l", "o">>, <<"h", "i">>, <<"b", "u", "e", "n", "o", "s", " ", "d", "í", "a", "s">>, <<"b", "u", "e", "n", "a", "s", " ", "t", "a", "r", "d", "e", "s">>, <<"b", "u", "e", "n", "a", "s", " ", "n", "o", "c", "h", "e", "s">>,
     <<"q", "u", "é", " ", "t", "a", "l">>, <<"s", "a", "l", "u", "d", "o", "s">>, <<"h", "e", "y">> >>

FAREWELL_PHRASES ==
  << <<"a", "d", "i", "ó", "s">>, <<"b", "y", "e">>, <<"c", "h", "a", "o">>, <<"h", "a", "s", "t", "a", " ", "l", "u", "e", "g", "o">>, <<"n", "o", "s", " ", "v", "e", "m", "o", "s">>, <<"g", "r", "a", "c", "i", "a", "s">> >>

STOP_WORDS ==
  { <<"e", "l">>, <<"l", "a">>, <<"l", "o", "s">>, <<"l", "a", "s">>, <<"u", "n">>, <<"u", "n", "a">>, <<"u", "n", "o", "s">>, <<"u", "n", "a", "s">>, <<"d", "e">>, <<"d", "e", "l">>, <<"a">>,
    <<"a", "n", "t", "e">>, <<"c", "o", "n">>, <<"e", "n">>, <<"p", "a", "r", "a">>, <<"p", "o", "r">>, <<"s", "i", "n">>, <<"s", "o", "b", "r", "e">>, <<"t", "r", "a", "s">>, <<"y">>, <<"o">>,
    <<"p", "e", "r", "o">>, <<"q", "u", "e">>, <<"s", "i">> }

-----------------------------------------------------------------------------
(* textMatcher                                                             *)

RECURSIVE joinSpace(_)
joinSpace(words) ==
  IF words = <<>> THEN <<>>
  ELSE IF Len(words) = 1 THEN words[1]
  ELSE words[1] \o <<Space>> \o joinSpace(Tail(words))

\* Mutant of removeStopWords: the words are rejoined without being filtered.
removeStopWordsNoFilter(text) == joinSpace(splitWhitespace(text))

removeStopWords(text) ==
  joinSpace(SelectSeq(splitWhitespace(text), LAMBDA w : w \notin STOP_WORDS))

DefaultOptions ==
  [minMatches |-> 10, matchThreshold |-> MATCH_THRESHOLD,
   partialMatches |-> TRUE, removeStopWords |-> FALSE]

partMatches(cleanedText, normalizedKeyword) ==
  Len(SelectSeq(splitWhitespace(normalizedKeyword),
                LAMBDA part : includes(cleanedText, part)))

\* What one keyword adds to `matches` in the loop of hasKeywords.
keywordMatch(cleanedText, words, keyword, opts) ==
  LET normalizedKeyword == normalizeText(keyword)
      keywordParts == splitWhitespace(normalizedKeyword)
  IN  IF includes(cleanedText, normalizedKeyword) THEN EXACT_MATCH
      ELSE IF /\ opts.partialMatches
              /\ hasSpace(normalizedKeyword)
              /\ 10 * partMatches(cleanedText, normalizedKeyword)
                    >= opts.matchThreshold * Len(keywordParts)
           THEN PARTIAL_MATCH
      ELSE IF \E i \in 1..Len(words) :
                 \/ includes(normalizedKeyword, words[i])
                 \/ includes(words[i], normalizedKeyword)
           THEN RELATED_TERM
      ELSE 0

RECURSIVE sumMatches(_, _, _, _)
sumMatches(cleanedText, words, keywords, opts) ==
  IF keywords = <<>> THEN 0
  ELSE keywordMatch(cleanedText, words, Head(keywords), opts)
       + sumMatches(cleanedText, words, Tail(keywords), opts)

\* Mutant of hasKeywordsWith: an empty text is not turned away.
hasKeywordsWithNoTextGuard(text, keywords, opts) ==
  IF keywords = <<>> THEN FALSE
  ELSE LET normalizedText == normalizeText(text)
           cleanedText == IF opts.removeStopWords
                          THEN removeStopWords(normalizedText)
                          ELSE normalizedText
           words == splitWhitespace(cleanedText)
       IN  sumMatches(cleanedText, words, keywords, opts) >= opts.minMatches

hasKeywordsWith(text, keywords, opts) ==
  IF text = <<>> \/ keywords = <<>> THEN FALSE
  ELSE LET normalizedText == normalizeText(text)
           cleanedText == IF opts.removeStopWords
                          THEN removeStopWords(normalizedText)
                          ELSE normalizedText
           words == splitWhitespace(cleanedText)
       IN  sumMatches(cleanedText, words, keywords, opts) >= opts.minMatches

hasKeywords(text, keywords) == hasKeywordsWith(text, keywords, DefaultOptions)

\* A score is a JavaScript number; the model keeps it exact, as a fraction
\* num / den of tenths.
Ratio(num, den) == [num |-> num, den |-> den]

plus(a, b) == Ratio(a.num * b.den + b.num * a.den, a.den * b.den)

atLeast(a, b) == a.num * b.den >= b.num * a.den

sameScore(a, b) == a.num * b.den = b.num * a.den

RECURSIVE sumScores(_)
sumScores(terms) ==
  IF terms = <<>> THEN Ratio(0, 1) ELSE plus(Head(terms), sumScores(Tail(terms)))

\* What each keyword adds to `matches` in hasKeywords, keyword by keyword.
matchTerms(text, keywords, opts) ==
  LET normalizedText == normalizeText(text)
      cleanedText == IF opts.removeStopWords
                     THEN removeStopWords(normalizedText)
                     ELSE normalizedText
      words == splitWhitespace(cleanedText)
  IN  [i \in 1..Len(keywords) |->
         Ratio(keywordMatch(cleanedText, words, keywords[i], opts), 1)]

\* the share of a multi-word keyword's parts found in the text, times the weight
partialScore(cleanedText, normalizedKeyword) ==
  IF hasSpace(normalizedKeyword)
  THEN Ratio(partMatches(cleanedText, normalizedKeyword) * PARTIAL_MATCH,
             Len(splitWhitespace(normalizedKeyword)))
  ELSE Ratio(0, 1)

\* the loop over the words of the text
relatedScore(words, normalizedKeyword) ==
  IF \E i \in 1..Len(words) :
        \/ includes(normalizedKeyword, words[i])
        \/ includes(words[i], normalizedKeyword)
  THEN Ratio(RELATED_TERM, 1)
  ELSE Ratio(0, 1)

\* What one keyword adds to `score` in the loop of calculateRelevance: only
\* the exact match ends the iteration early.
keywordScore(cleanedText, words, keyword) ==
  LET normalizedKeyword == normalizeText(keyword)
  IN  IF includes(cleanedText, normalizedKeyword) THEN Ratio(EXACT_MATCH, 1)
      ELSE plus(partialScore(cleanedText, normalizedKeyword),
                relatedScore(words, normalizedKeyword))

\* What each keyword adds to `score` in calculateRelevance, keyword by keyword.
scoreTerms(text, keywords) ==
  LET cleanedText == removeStopWords(normalizeText(text))
      words == splitWhitespace(cleanedText)
  IN  [i \in 1..Len(keywords) |-> keywordScore(cleanedText, words, keywords[i])]

\* Mutant of calculateRelevance: the sum is divided by the number of keywords.
calculateRelevanceAveraged(text, keywords) ==
  IF text = <<>> \/ keywords = <<>> THEN Ratio(0, 1)
  ELSE LET total == sumScores(scoreTerms(text, keywords))
       IN  Ratio(total.num, total.den * Len(keywords))

calculateRelevance(text, keywords) ==
  IF text = <<>> \/ keywords = <<>> THEN Ratio(0, 1)
  ELSE sumScores(scoreTerms(text, keywords))

\* A keywords argument: a list, or undefined.
Given(list) == [given |-> TRUE, list |-> list]

NotGiven == [given |-> FALSE, list |-> <<>>]

\* hasKeywords and calculateRelevance as called: `!keywords` comes first.
hasKeywordsOf(text, arg, opts) ==
  IF ~arg.given THEN FALSE ELSE hasKeywordsWith(text, arg.list, opts)

calculateRelevanceOf(text, arg) ==
  IF ~arg.given THEN Ratio(0, 1) ELSE calculateRelevance(text, arg.list)

-----------------------------------------------------------------------------
(* jsonStore: one JSON file per collection                                 *)

Collections == {"categories", "services", "chatResponses", "users"}

NoFault == "none"

\* Mutant of readData: every read failure, not only ENOENT, reads as the empty list.
readDataSwallowErrors(files, collection, fault) ==
  IF fault = collection \/ ~files[collection].exists
  THEN [ok |-> TRUE, docs |-> <<>>]
  ELSE [ok |-> TRUE, docs |-> files[collection].docs]

\* fs.readFile + JSON.parse.  A missing file (ENOENT) reads as the empty list;
\* any other failure (fault names the collection whose read fails) is rethrown.
readData(files, collection, fault) ==
  IF fault = collection THEN [ok |-> FALSE, docs |-> <<>>]
  ELSE IF ~files[collection].exists THEN [ok |-> TRUE, docs |-> <<>>]
  ELSE [ok |-> TRUE, docs |-> files[collection].docs]

\* find(collection) with no criteria returns everything readData returned.
find(files, collection, fault) == readData(files, collection, fault)

Null == [null |-> TRUE]

\* Array.prototype.find on id: the first document with that id, or Null
RECURSIVE findById(_, _)
findById(docs, id) ==
  IF docs = <<>> THEN Null
  ELSE IF Head(docs).id = id THEN Head(docs)
  ELSE findById(Tail(docs), id)

\* Array.prototype.slice(0, n)
slice(seq, n) == SubSeq(seq, 1, IF Len(seq) < n THEN Len(seq) ELSE n)

-----------------------------------------------------------------------------
(* ChatResponse model                                                      *)

\* new ChatResponse(data): the defaults of the constructor (a falsy field
\* takes its default; active is true unless the document says false).
ChatResponse(data) ==
  [id          |-> IF Has(data, "id") THEN data.id ELSE 0,
   keywords    |-> IF Has(data, "keywords") THEN data.keywords ELSE <<>>,
   text        |-> IF Has(data, "text") THEN data.text ELSE "",
   suggestions |-> IF Has(data, "suggestions") THEN data.suggestions ELSE <<>>,
   serviceIds  |-> IF Has(data, "serviceIds") THEN data.serviceIds ELSE <<>>,
   categoryIds |-> IF Has(data, "categoryIds") THEN data.categoryIds ELSE <<>>,
   priority    |-> IF Has(data, "priority") /\ data.priority # 0
                   THEN data.priority ELSE 1,
   active      |-> IF Has(data, "active") THEN data.active ELSE TRUE]

matchesText(response, text) ==
  IF text = <<>> \/ response.keywords = <<>> THEN FALSE
  ELSE \E i \in 1..Len(response.keywords) :
          includes(toLowerCase(text), toLowerCase(response.keywords[i]))

responseRelevance(response, text) ==
  IF text = <<>> \/ response.keywords = <<>> THEN 0
  ELSE Len(SelectSeq(response.keywords,
                     LAMBDA k : includes(toLowerCase(text), toLowerCase(k))))
       * response.priority

-----------------------------------------------------------------------------
(* chatService                                                             *)

Greetings ==
  << "¡Hola! Soy el asistente virtual del Marketplace de Servicios. ¿En qué puedo ayudarte hoy?",
     "¡Bienvenido! ¿Qué tipo de servicio estás buscando?",
     "Hola, estoy aquí para ayudarte a encontrar el servicio perfecto. ¿Qué necesitas?",
     "¡Saludos! Cuéntame, ¿qué tipo de servicio estás buscando?" >>

Farewells ==
  << "¡Hasta pronto! Espero haberte ayudado.",
     "Ha sido un placer asistirte. ¡Vuelve cuando quieras!",
     "¡Adiós! Si necesitas algo más, estaré aquí.",
     "Gracias por usar nuestro servicio. ¡Que tengas un buen día!" >>

FoundMessage == "¡He encontrado algunas opciones que podrían interesarte!"

\* Math.random() is one of RandomLevels equally spaced values r / RandomLevels;
\* pool[Math.floor(Math.random() * pool.length)]
pickRandom(pool, r, levels) == pool[((r * Len(pool)) \div levels) + 1]

isGreeting(normalizedMessage) ==
  \E i \in 1..Len(GREETING_PHRASES) :
     includes(normalizedMessage, GREETING_PHRASES[i])
       \/ normalizedMessage = GREETING_PHRASES[i]

isFarewell(normalizedMessage) ==
  \E i \in 1..Len(FAREWELL_PHRASES) :
     includes(normalizedMessage, FAREWELL_PHRASES[i])
       \/ normalizedMessage = FAREWELL_PHRASES[i]

categorySummary(category) ==
  [id |-> category.id, name |-> category.name,
   description |-> category.description, icon |-> category.icon]

serviceSummary(service, categories) ==
  LET category == findById(categories, service.category)
  IN  [id |-> service.id, title |-> service.title,
       description |-> service.description, price |-> service.price,
       category |-> IF category # Null
                    THEN [id |-> category.id, name |-> category.name]
                    ELSE Null]

\* `field && field.length > 0`
nonEmptyList(doc, f) == Has(doc, f) /\ doc[f] # <<>>

\* exactMatches.sort((a, b) => relevanceB - relevanceA): a stable sort,
\* descending by relevance (insertion keeps equal elements in their order).
RECURSIVE insertByRelevance(_, _, _)
insertByRelevance(sorted, response, text) ==
  IF sorted = <<>> THEN <<response>>
  ELSE IF responseRelevance(Head(sorted), text) >= responseRelevance(response, text)
       THEN <<Head(sorted)>> \o insertByRelevance(Tail(sorted), response, text)
       ELSE <<response>> \o sorted

\* Mutant of sortByRelevance: the matches stay in collection order.
keepCollectionOrder(responses, text) == responses

RECURSIVE sortByRelevance(_, _)
sortByRelevance(responses, text) ==
  IF responses = <<>> THEN <<>>
  ELSE insertByRelevance(
         sortByRelevance(SubSeq(responses, 1, Len(responses) - 1), text),
         responses[Len(responses)], text)

\* responseModels.filter(response => response.matchesText(msg) && response.active)
exactMatches(chatResponses, normalizedMessage) ==
  SelectSeq([i \in 1..Len(chatResponses) |-> ChatResponse(chatResponses[i])],
            LAMBDA response : matchesText(response, normalizedMessage) /\ response.active)

\* Mutant of relatedCategories: an inactive category is included too.
RECURSIVE relatedCategoriesAnyState(_, _)
relatedCategoriesAnyState(categoryIds, categories) ==
  IF categoryIds = <<>> THEN <<>>
  ELSE LET category == findById(categories, Head(categoryIds))
       IN  (IF category # Null THEN <<categorySummary(category)>> ELSE <<>>)
           \o relatedCategoriesAnyState(Tail(categoryIds), categories)

\* the loop over bestMatch.categoryIds
RECURSIVE relatedCategories(_, _)
relatedCategories(categoryIds, categories) ==
  IF categoryIds = <<>> THEN <<>>
  ELSE LET category == findById(categories, Head(categoryIds))
       IN  (IF category # Null /\ category.active
            THEN <<categorySummary(category)>> ELSE <<>>)
           \o relatedCategories(Tail(categoryIds), categories)

\* the loop over bestMatch.serviceIds
RECURSIVE relatedServices(_, _, _)
relatedServices(serviceIds, services, categories) ==
  IF serviceIds = <<>> THEN <<>>
  ELSE LET service == findById(services, Head(serviceIds))
       IN  (IF service # Null /\ service.active
            THEN <<serviceSummary(service, categories)>> ELSE <<>>)
           \o relatedServices(Tail(serviceIds), services, categories)

\* the filter callback of matchedCategories in processMessage
categoryMatches(category, normalizedMessage) ==
  IF ~category.active THEN FALSE
  ELSE IF includes(normalizedMessage, normalizeText(category.name)) THEN TRUE
  ELSE IF nonEmptyList(category, "keywords")
       THEN hasKeywords(normalizedMessage, category.keywords)
  ELSE FALSE

\* the filter callback of matchedServices in processMessage
serviceMatches(service, normalizedMessage) ==
  IF ~service.active THEN FALSE
  ELSE IF includes(normalizedMessage, normalizeText(service.title)) THEN TRUE
  ELSE IF nonEmptyList(service, "keywords")
       THEN hasKeywords(normalizedMessage, service.keywords)
  ELSE IF nonEmptyList(service, "tags")
       THEN \E i \in 1..Len(service.tags) :
               includes(normalizedMessage, normalizeText(service.tags[i]))
  ELSE FALSE

\* Mutant of matchedCategories: the list is cut before it is filtered.
matchedCategoriesSliceFirst(categories, normalizedMessage) ==
  SelectSeq(slice(categories, MAX_RESULTS_CATEGORIES),
            LAMBDA c : categoryMatches(c, normalizedMessage))

matchedCategories(categories, normalizedMessage) ==
  slice(SelectSeq(categories, LAMBDA c : categoryMatches(c, normalizedMessage)),
        MAX_RESULTS_CATEGORIES)

matchedServices(services, normalizedMessage) ==
  slice(SelectSeq(services, LAMBDA s : serviceMatches(s, normalizedMessage)),
        MAX_RESULTS_SERVICES)

MoreOf(name) == [text |-> "Más servicios de ", name |-> name]

getSearchSuggestions(matched) ==
  IF Len(matched) > 0
  THEN [i \in 1..Len(slice(matched, 2)) |-> MoreOf(matched[i].name)]
       \o slice(DEFAULT_SUGGESTIONS, 2)
  ELSE DEFAULT_SUGGESTIONS

\* What a handler run leaves behind: its result, the collections it asked the
\* store for (in order), and the matching stages it evaluated.
Reply(r) == [outcome |-> "reply", reply |-> r]

Thrown(e) == [outcome |-> "error", error |-> e]

Rejected(status, text) == [outcome |-> "rejected", status |-> status, error |-> text]

NoResult == [outcome |-> "none"]

Run(res, reads, evaluated) == [result |-> res, lookups |-> reads, stages |-> evaluated]

\* processMessage, lines 985-1040: the reply built from the best canned response.
\* The model's suggestions is always a list, and a list is truthy in `||`.
cannedReply(bestMatch, categories, services) ==
  LET relCategories == relatedCategories(bestMatch.categoryIds, categories)
      relServices == relatedServices(bestMatch.serviceIds, services, categories)
  IN  IF Len(relCategories) > 0 \/ Len(relServices) > 0
      THEN [type |-> "search_results", message |-> bestMatch.text,
            categories |-> relCategories, services |-> relServices,
            suggestions |-> bestMatch.suggestions]
      ELSE [type |-> "text", message |-> bestMatch.text,
            suggestions |-> bestMatch.suggestions]

\* processMessage, lines 1083-1116
searchReply(matchedCats, matchedSvcs, categories) ==
  [type |-> "search_results", message |-> FoundMessage,
   categories |-> [i \in 1..Len(matchedCats) |-> categorySummary(matchedCats[i])],
   services |-> [i \in 1..Len(matchedSvcs) |-> serviceSummary(matchedSvcs[i], categories)],
   suggestions |-> getSearchSuggestions(matchedCats)]

\* Mutant of defaultReply: the message is drawn from the greeting pool.
defaultReplyFromGreetings(r, levels) ==
  [type |-> "text", message |-> pickRandom(Greetings, r, levels),
   suggestions |-> DEFAULT_SUGGESTIONS]

\* processMessage, lines 1118-1123
defaultReply(r, levels) ==
  [type |-> "text", message |-> pickRandom(DEFAULT_RESPONSES, r, levels),
   suggestions |-> DEFAULT_SUGGESTIONS]

\* Mutant of greetingReply: no suggestions, as in the farewell reply.
greetingReplyNoSuggestions(r, levels) ==
  [type |-> "text", message |-> pickRandom(Greetings, r, levels),
   suggestions |-> <<>>]

\* processMessage, lines 944-950
greetingReply(r, levels) ==
  [type |-> "text", message |-> pickRandom(Greetings, r, levels),
   suggestions |-> DEFAULT_SUGGESTIONS]

\* Mutant of farewellReply: the default suggestions, as in the greeting reply.
farewellReplyWithSuggestions(r, levels) ==
  [type |-> "text", message |-> pickRandom(Farewells, r, levels),
   suggestions |-> DEFAULT_SUGGESTIONS]

\* processMessage, lines 953-959
farewellReply(r, levels) ==
  [type |-> "text", message |-> pickRandom(Farewells, r, levels),
   suggestions |-> <<>>]

\* Mutant of matchStages: finding nothing is an error instead of the fallback.
matchStagesNoMatchError(categories, services, chatResponses, normMessage, r, levels) ==
  LET exact == exactMatches(chatResponses, normMessage)
      matchedCats == matchedCategories(categories, normMessage)
      matchedSvcs == matchedServices(services, normMessage)
  IN  IF Len(exact) > 0
      THEN Run(Reply(cannedReply(sortByRelevance(exact, normMessage)[1],
                                 categories, services)),
               <<"categories", "services", "chatResponses">>, {"canned"})
      ELSE IF Len(matchedCats) > 0 \/ Len(matchedSvcs) > 0
      THEN Run(Reply(searchReply(matchedCats, matchedSvcs, categories)),
               <<"categories", "services", "chatResponses">>,
               {"canned", "categories", "services"})
      ELSE Run(Thrown("NoMatchFound"),
               <<"categories", "services", "chatResponses">>,
               {"canned", "categories", "services"})

\* processMessage from line 966 on, the three collections loaded
matchStages(categories, services, chatResponses, normMessage, r, levels) ==
  LET exact == exactMatches(chatResponses, normMessage)
      matchedCats == matchedCategories(categories, normMessage)
      matchedSvcs == matchedServices(services, normMessage)
  IN  IF Len(exact) > 0
      THEN Run(Reply(cannedReply(sortByRelevance(exact, normMessage)[1],
                                 categories, services)),
               <<"categories", "services", "chatResponses">>, {"canned"})
      ELSE IF Len(matchedCats) > 0 \/ Len(matchedSvcs) > 0
      THEN Run(Reply(searchReply(matchedCats, matchedSvcs, categories)),
               <<"categories", "services", "chatResponses">>,
               {"canned", "categories", "services"})
      ELSE Run(Reply(defaultReply(r, levels)),
               <<"categories", "services", "chatResponses">>,
               {"canned", "categories", "services"})

\* Mutant of processMessage: the farewell check comes before the greeting check.
processMessageFarewellFirst(files, msg, fault, r, levels) ==
  IF msg.type # "string" THEN Run(Thrown("TypeError"), <<>>, {})
  ELSE
    LET normalizedMessage == normalizeText(msg.value)
        categories == find(files, "categories", fault)
        services == find(files, "services", fault)
        chatResponses == find(files, "chatResponses", fault)
    IN  IF isFarewell(normalizedMessage)
        THEN Run(Reply(farewellReply(r, levels)), <<>>, {})
        ELSE IF isGreeting(normalizedMessage)
        THEN Run(Reply(greetingReply(r, levels)), <<>>, {})
        ELSE IF ~categories.ok
        THEN Run(Thrown("EIO"), <<"categories">>, {})
        ELSE IF ~services.ok
        THEN Run(Thrown("EIO"), <<"categories", "services">>, {})
        ELSE IF ~chatResponses.ok
        THEN Run(Thrown("EIO"), <<"categories", "services", "chatResponses">>, {})
        ELSE matchStages(categories.docs, services.docs, chatResponses.docs,
                         normalizedMessage, r, levels)

\* chatService.processMessage(message).  A value without toLowerCase makes
\* normalizeText throw a TypeError; a rejected find rejects the whole call.
processMessage(files, msg, fault, r, levels) ==
  IF msg.type # "string" THEN Run(Thrown("TypeError"), <<>>, {})
  ELSE
    LET normalizedMessage == normalizeText(msg.value)
        categories == find(files, "categories", fault)
        services == find(files, "services", fault)
        chatResponses == find(files, "chatResponses", fault)
    IN  IF isGreeting(normalizedMessage)
        THEN Run(Reply(greetingReply(r, levels)), <<>>, {})
        ELSE IF isFarewell(normalizedMessage)
        THEN Run(Reply(farewellReply(r, levels)), <<>>, {})
        ELSE IF ~categories.ok
        THEN Run(Thrown("EIO"), <<"categories">>, {})
        ELSE IF ~services.ok
        THEN Run(Thrown("EIO"), <<"categories", "services">>, {})
        ELSE IF ~chatResponses.ok
        THEN Run(Thrown("EIO"), <<"categories", "services", "chatResponses">>, {})
        ELSE matchStages(categories.docs, services.docs, chatResponses.docs,
                         normalizedMessage, r, levels)

-----------------------------------------------------------------------------
(* chatController                                                          *)

\* the filter callback of matchedCategories in sendMessage
ctlCategoryMatches(category, normalizedMessage) ==
  IF nonEmptyList(category, "keywords")
  THEN hasKeywords(normalizedMessage, category.keywords)
  ELSE \/ includes(normalizedMessage, normalizeText(category.name))
       \/ /\ Has(category, "description") /\ category.description # <<>>
          /\ includes(normalizedMessage, normalizeText(category.description))

\* the filter callback of matchedServices in sendMessage
ctlServiceMatches(service, normalizedMessage) ==
  IF Has(service, "active") /\ service.active = FALSE THEN FALSE
  ELSE IF nonEmptyList(service, "keywords")
  THEN hasKeywords(normalizedMessage, service.keywords)
  ELSE \/ includes(normalizedMessage, normalizeText(service.title))
       \/ /\ Has(service, "description") /\ service.description # <<>>
          /\ includes(normalizedMessage, normalizeText(service.description))

ctlServiceDetails(service, categories, users) ==
  LET category == findById(categories, service.category)
      provider == findById(users, service.provider)
  IN  [id |-> service.id, title |-> service.title,
       description |-> service.description, price |-> service.price,
       category |-> IF category # Null
                    THEN [id |-> category.id, name |-> category.name]
                    ELSE Null,
       provider |-> IF provider # Null
                    THEN [id |-> provider.id, name |-> provider.name]
                    ELSE Null]

\* step 5 of sendMessage: the first stored response whose keywords gate-match
RECURSIVE ctlFirstResponse(_, _)
ctlFirstResponse(chatResponses, normalizedMessage) ==
  IF chatResponses = <<>> THEN Null
  ELSE IF Has(Head(chatResponses), "keywords")
          /\ hasKeywords(normalizedMessage, Head(chatResponses).keywords)
       THEN Head(chatResponses)
       ELSE ctlFirstResponse(Tail(chatResponses), normalizedMessage)

\* sendMessage from step 2 on, the three collections loaded
ctlMatchStages(files, categories, services, chatResponses, normMessage, fault, r, levels) ==
  LET matchedCats == SelectSeq(categories,
                        LAMBDA c : ctlCategoryMatches(c, normMessage))
      matchedSvcs == SelectSeq(services,
                        LAMBDA s : ctlServiceMatches(s, normMessage))
      limitedCategories == slice(matchedCats, MAX_RESULTS_CATEGORIES)
      limitedServices == slice(matchedSvcs, MAX_RESULTS_SERVICES)
      users == find(files, "users", fault)
      response == ctlFirstResponse(chatResponses, normMessage)
      loaded == <<"categories", "services", "chatResponses">>
  IN  IF Len(matchedCats) > 0 \/ Len(matchedSvcs) > 0
      THEN IF Len(limitedServices) > 0 /\ ~users.ok
           THEN Run(Thrown("EIO"), Append(loaded, "users"), {"categories", "services"})
           ELSE Run(Reply([type |-> "search_results", message |-> FoundMessage,
                           categories |-> [i \in 1..Len(limitedCategories) |->
                                             categorySummary(limitedCategories[i])],
                           services |-> [i \in 1..Len(limitedServices) |->
                                           ctlServiceDetails(limitedServices[i],
                                                             categories, users.docs)]]),
                    loaded \o [i \in 1..Len(limitedServices) |-> "users"],
                    {"categories", "services"})
      ELSE IF response # Null
      THEN Run(Reply([type |-> "text", message |-> response.text,
                      suggestions |-> IF Has(response, "suggestions")
                                      THEN response.suggestions
                                      ELSE DEFAULT_SUGGESTIONS]),
               loaded, {"categories", "services", "canned"})
      ELSE Run(Reply(defaultReply(r, levels)),
               loaded, {"categories", "services", "canned"})

\* chatController.sendMessage(req, res): asyncHandler hands a rejected read to
\* the error middleware.
sendMessage(files, msg, fault, r, levels) ==
  IF falsy(msg) \/ msg.type # "string"
  THEN Run(Rejected(400, "Se requiere un mensaje válido"), <<>>, {})
  ELSE
    LET normalizedMessage == normalizeText(msg.value)
        categories == find(files, "categories", fault)
        services == find(files, "services", fault)
        chatResponses == find(files, "chatResponses", fault)
    IN  IF ~categories.ok
        THEN Run(Thrown("EIO"), <<"categories">>, {})
        ELSE IF ~services.ok
        THEN Run(Thrown("EIO"), <<"categories", "services">>, {})
        ELSE IF ~chatResponses.ok
        THEN Run(Thrown("EIO"), <<"categories", "services", "chatResponses">>, {})
        ELSE IF isGreeting(normalizedMessage)
        THEN Run(Reply(greetingReply(r, levels)),
                 <<"categories", "services", "chatResponses">>, {})
        ELSE ctlMatchStages(files, categories.docs, services.docs, chatResponses.docs,
                            normalizedMessage, fault, r, levels)

-----------------------------------------------------------------------------
(* Bounds and inputs                                                       *)

MaxCats == 4

MaxSvcs == 6

MaxResp == 2

RandomLevels == 4

\* the values Math.random() takes, as numerators over RandomLevels
RandomDraws == 0..(RandomLevels - 1)

\* Stored documents.  Document j of a collection takes its text fields from a
\* short cycle, so that matching and non-matching documents alternate.
CategoryDoc(j, active) ==
  LET k == ((j - 1) % 4) + 1
      base == [id |-> j, slug |-> k, icon |-> "icon", active |-> active,
               popular |-> (k = 1)]
  IN  CASE k = 1 -> base @@ [name |-> <<"W", "e", "b">>, description |-> <<"s", "i", "t", "i", "o", "s">>,
                            keywords |-> <<<<"s", "i", "t", "i", "o", " ", "w", "e", "b">>>>]
        [] k = 2 -> base @@ [name |-> <<"A", "p", "p", "s">>, description |-> <<"m", "o", "v", "i", "l">>,
                            keywords |-> <<<<"a", "p", "p">>>>]
        [] k = 3 -> base @@ [name |-> <<"W", "e", "b">>, description |-> <<"w", "e", "b">>]
        [] k = 4 -> base @@ [name |-> <<"D", "i", "s", "e", "ñ", "o">>, description |-> <<"l", "o", "g", "o">>,
                            keywords |-> <<<<"w", "e", "b">>, <<"D", "i", "s", "e", "ñ", "o">>,
                                          <<" ">>>>]

ServiceDoc(j, active) ==
  LET k == ((j - 1) % 3) + 1
      base == [id |-> j, price |-> 100 * k, active |-> active]
  IN  CASE k = 1 -> base @@ [title |-> <<"W", "e", "b", " ", "P", "r", "o">>, description |-> <<"h", "o", "s", "t", "i", "n", "g">>,
                            category |-> 1, provider |-> 1,
                            keywords |-> <<<<"w", "e", "b">>>>, tags |-> <<>>]
        [] k = 2 -> base @@ [title |-> <<"A", "p", "p">>, description |-> <<"m", "o", "v", "i", "l">>,
                            category |-> 2, provider |-> 2,
                            tags |-> <<<<"W", "e", "b">>>>]
        [] k = 3 -> base @@ [title |-> <<"L", "o", "g", "o">>, description |-> <<"l", "o", "g", "o">>,
                            category |-> 9, provider |-> 1,
                            keywords |-> <<<<"l", "o", "g", "o">>>>, tags |-> <<<<"w", "e", "b">>>>]

ResponseDoc(k) ==
  CASE k = 1 -> [id |-> 1, keywords |-> <<<<"w", "e", "b">>>>,
                 text |-> "Ofrecemos desarrollo web.",
                 categoryIds |-> <<1, 2, 1, 1>>, serviceIds |-> <<1, 2>>]
    [] k = 2 -> [id |-> 2, keywords |-> <<<<"W", "e", "b">>, <<"a", "p", "p">>,
                                          <<"D", "i", "s", "e", "ñ", "o">>>>,
                 text |-> "Tenemos aplicaciones.",
                 suggestions |-> <<Fixed("Ver aplicaciones")>>, active |-> TRUE]
    [] k = 3 -> [id |-> 3, keywords |-> <<<<"x", "y", "z">>>>,
                 text |-> "Fuera de servicio.",
                 suggestions |-> <<>>, priority |-> 0, active |-> FALSE]

File(docs) == [exists |-> TRUE, docs |-> docs]

Missing == [exists |-> FALSE, docs |-> <<>>]

CategoryFiles ==
  {Missing} \cup
  { File([j \in 1..n |-> CategoryDoc(j, j # inactive)]) :
      <<n, inactive>> \in {p \in (0..MaxCats) \X (0..MaxCats) : p[2] <= p[1]} }

ServiceFiles ==
  {Missing} \cup
  { File([j \in 1..n |-> ServiceDoc(j, j # inactive)]) :
      <<n, inactive>> \in {p \in (0..MaxSvcs) \X {0, 2} :
                              p[2] = 0 \/ p[1] = MaxSvcs} }

ResponseFiles ==
  {Missing} \cup
  { File([j \in 1..n |-> ResponseDoc(((first + j) % 3) + 1)]) :
      <<n, first>> \in {p \in (0..MaxResp) \X (0..2) : p[1] > 0 \/ p[2] = 0} }

UserFile == File(<< [id |-> 1, name |-> <<"A", "n", "a">>] >>)

Messages ==
  { Str(<<"H", "o", "l", "a">>), Str(<<"h", "i", " ", "b", "y", "e">>), Str(<<"b", "y", "e">>), Str(<<"h", "i", " ", "w", "e", "b">>),
    Str(<<"w", "e", "b">>), Str(<<" ", "S", "i", "t", "i", "o", " ", "W", "e", "b", " ">>), Str(<<"w", "e", "b", " ", "a", "p", "p">>), Str(<<"w", "e", "b", " ", "l", "o", "g", "o">>),
    Str(<<"d", "i", "s", "e", "ñ", "o">>), Str(<<"x", "y", "z">>), Str(<<>>), Str(<<" ", " ">>), NotAString("undefined") }

Faults == {NoFault} \cup Collections

MaxLen == 3

MaxWords == 3

MaxKeywords == 2

\* Strings handed to normalizeText: every string of at most MaxLen characters
\* over letters in both cases, accented letters, a combining mark and the space.
Alphabet == {"A", "b", "é", "É", "Ñ", "U+0301", " "}

Strings == UNION { [1..n -> Alphabet] : n \in 0..MaxLen }

\* Texts handed to textMatcher: up to MaxWords words (one of them a stop word)
\* separated by single spaces, and a few texts with other spacing, case or accents.
Words == {<<"w", "e", "b">>, <<"d", "e">>, <<"s", "i", "t", "i", "o">>}

Phrases == { joinSpace(ws) : ws \in UNION { [1..n -> Words] : n \in 1..MaxWords } }

Texts ==
  Phrases \cup {<<>>, <<" ", " ">>, <<"w", "e", "b", " ", " ", "d", "e", " ", " ", "s", "i", "t", "i", "o">>, <<" ", "D", "e", " ", "W", "e", "b", " ">>, <<"D", "i", "s", "e", "ñ", "o">>, <<"d", "i", "s", "e", "ñ", "o", " ", "d", "e", " ", "w", "e", "b">>}

KeywordPool == {<<"w", "e", "b">>, <<"w", "e", "b", "s">>, <<"s", "i", "t", "i", "o", " ", "w", "e", "b">>, <<"d", "e", " ", "w", "e", "b">>, <<"D", "i", "s", "e", "ñ", "o", " ", "d", "e", " ", "w", "e", "b">>}

KeywordLists == UNION { [1..n -> KeywordPool] : n \in 0..MaxKeywords }

KeywordArgs == {NotGiven} \cup {Given(list) : list \in KeywordLists}

\* Messages whose intent is classified: the configured phrases, as written in
\* the configuration, and messages that hold one or none of them.
IntentTexts ==
  {GREETING_PHRASES[i] : i \in 1..Len(GREETING_PHRASES)}
    \cup {FAREWELL_PHRASES[i] : i \in 1..Len(FAREWELL_PHRASES)}
    \cup {<<"H", "o", "l", "a">>, <<"w", "e", "b">>, <<"A", "d", "i", "o", "s">>}

OptionSets ==
  { DefaultOptions,
    [DefaultOptions EXCEPT !.removeStopWords = TRUE],
    [DefaultOptions EXCEPT !.partialMatches = FALSE],
    [DefaultOptions EXCEPT !.minMatches = RELATED_TERM, !.matchThreshold = 3] }

-----------------------------------------------------------------------------
(* Calls in progress: an async function between its awaits                 *)

\* the callers whose calls may be in progress at the same time
Calls == {"a", "b"}

Idle == [pc |-> "idle"]

NoProcs == [c \in Calls |-> Idle]

\* the payment references a caller may present
Refs == {"ref-1", "ref-2"}

NoReference == [exists |-> FALSE, used |-> FALSE]

NoDb ==
  [references |-> [ref \in Refs |-> NoReference],
   transactions |-> <<>>,
   projects |-> [ref \in Refs |-> "in_progress"]]

-----------------------------------------------------------------------------
(* The state machine                                                       *)

\* no text function is being called
NoCall == [fn |-> "none"]

Init ==
  /\ store \in { [categories |-> c, services |-> s, chatResponses |-> r,
                  users |-> UserFile] :
                   c \in CategoryFiles, s \in ServiceFiles, r \in ResponseFiles }
  /\ entry = "none"
  /\ message = NotAString("undefined")
  /\ result = NoResult
  /\ lookups = <<>>
  /\ stages = {}
  /\ failed = NoFault
  /\ call = NoCall
  /\ procs = NoProcs
  /\ db = NoDb

\* A handler run ends: its result and its trace become the state.  failed is
\* the collection whose read failed during the run, if the run read it.
Finish(name, msg, fault, run) ==
  /\ entry' = name
  /\ failed' = IF \E i \in 1..Len(run.lookups) : run.lookups[i] = fault
                THEN fault ELSE NoFault
  /\ message' = msg
  /\ result' = run.result
  /\ lookups' = run.lookups
  /\ stages' = run.stages
  /\ UNCHANGED <<store, call, procs, db>>

ProcessMessage ==
  /\ entry = "none"
  /\ \E msg \in Messages, fault \in Faults, r \in RandomDraws :
        Finish("processMessage", msg, fault,
               processMessage(store, msg, fault, r, RandomLevels))

SendMessage ==
  /\ entry = "none"
  /\ \E msg \in Messages, fault \in Faults, r \in RandomDraws :
        Finish("sendMessage", msg, fault,
               sendMessage(store, msg, fault, r, RandomLevels))

\* The caller has the result (the promise settled, the response sent); the
\* next request finds the handlers idle.
Deliver ==
  /\ entry # "none"
  /\ entry' = "none"
  /\ message' = NotAString("undefined")
  /\ result' = NoResult
  /\ lookups' = <<>>
  /\ stages' = {}
  /\ failed' = NoFault
  /\ UNCHANGED <<store, call, procs, db>>

Next == ProcessMessage \/ SendMessage \/ Deliver

Spec == Init /\ [][Next]_vars

-----------------------------------------------------------------------------
(* The text functions, called on their own                                 *)

ChatIdle ==
  /\ entry = "none"
  /\ message = NotAString("undefined")
  /\ result = NoResult
  /\ lookups = <<>>
  /\ stages = {}
  /\ failed = NoFault

MatcherInit ==
  /\ store = [categories |-> Missing, services |-> Missing,
              chatResponses |-> Missing, users |-> UserFile]
  /\ ChatIdle
  /\ call = NoCall
  /\ procs = NoProcs
  /\ db = NoDb

Called(c) ==
  /\ call = NoCall
  /\ call' = c
  /\ UNCHANGED <<store, entry, message, result, lookups, stages, failed, procs, db>>

NormalizeText ==
  \E s \in Strings :
     Called([fn |-> "normalizeText", text |-> s, out |-> normalizeText(s)])

RemoveStopWords ==
  \E t \in Texts :
     Called([fn |-> "removeStopWords", text |-> t, out |-> removeStopWords(t)])

\* added: what the loop over the keywords added for each of them (empty when
\* the function returned before the loop).
HasKeywords ==
  \E t \in Texts, arg \in KeywordArgs, opts \in OptionSets :
     Called([fn |-> "hasKeywords", text |-> t, keywords |-> arg, options |-> opts,
             out |-> hasKeywordsOf(t, arg, opts),
             added |-> IF t = <<>> THEN <<>> ELSE matchTerms(t, arg.list, opts)])

CalculateRelevance ==
  \E t \in Texts, arg \in KeywordArgs :
     Called([fn |-> "calculateRelevance", text |-> t, keywords |-> arg,
             out |-> calculateRelevanceOf(t, arg),
             added |-> IF t = <<>> THEN <<>> ELSE scoreTerms(t, arg.list)])

\* the start of processMessage: the message is normalized and checked against
\* the greeting and the farewell phrases
ClassifyIntent ==
  \E t \in IntentTexts :
     Called([fn |-> "classifyIntent", text |-> t,
             greeting |-> isGreeting(normalizeText(t)),
             farewell |-> isFarewell(normalizeText(t))])

Return ==
  /\ call # NoCall
  /\ call' = NoCall
  /\ UNCHANGED <<store, entry, message, result, lookups, stages, failed, procs, db>>

MatcherNext ==
  \/ NormalizeText \/ RemoveStopWords \/ HasKeywords \/ CalculateRelevance
  \/ ClassifyIntent \/ Return

MatcherSpec == MatcherInit /\ [][MatcherNext]_vars

-----------------------------------------------------------------------------
(* processMessage, await by await, for several callers at once             *)

ChatStores ==
  { [categories |-> Missing, services |-> Missing, chatResponses |-> Missing,
     users |-> UserFile],
    [categories |-> File([j \in 1..2 |-> CategoryDoc(j, j # 2)]),
     services |-> Missing,
     chatResponses |-> File(<<ResponseDoc(3)>>),
     users |-> UserFile],
    [categories |-> File([j \in 1..4 |-> CategoryDoc(j, TRUE)]),
     services |-> File([j \in 1..3 |-> ServiceDoc(j, TRUE)]),
     chatResponses |-> File(<<ResponseDoc(1), ResponseDoc(2)>>),
     users |-> UserFile] }

ConcurrentMessages ==
  { Str(<<"H", "o", "l", "a">>), Str(<<"b", "y", "e">>), Str(<<"w", "e", "b">>), Str(<<"w", "e", "b", " ", "a", "p", "p">>), Str(<<"x", "y", "z">>),
    NotAString("undefined") }

\* processMessage up to its first await: the reply to a greeting or a
\* farewell, or the wait for the categories
begun(msg, r, levels) ==
  IF msg.type # "string"
  THEN [pc |-> "done", message |-> msg, result |-> Thrown("TypeError")]
  ELSE IF isGreeting(normalizeText(msg.value))
  THEN [pc |-> "done", message |-> msg, result |-> Reply(greetingReply(r, levels))]
  ELSE IF isFarewell(normalizeText(msg.value))
  THEN [pc |-> "done", message |-> msg, result |-> Reply(farewellReply(r, levels))]
  ELSE [pc |-> "categories", message |-> msg]

\* Mutant of afterFind: find writes an emptied collection back.
afterFindRewritten(files, collection) == [files EXCEPT ![collection] = File(<<>>)]

\* the data files after jsonStore.find(collection): find only reads
afterFind(files, collection) == files

\* processMessage from the return of the last find to its return
replied(p, files, r, levels) ==
  [pc |-> "done", message |-> p.message,
   result |-> matchStages(p.categories, p.services,
                          find(files, "chatResponses", NoFault).docs,
                          normalizeText(p.message.value), r, levels).result]

ChatFrame == UNCHANGED <<entry, message, result, lookups, stages, failed, call, db>>

ChatInit ==
  /\ store \in ChatStores
  /\ ChatIdle
  /\ call = NoCall
  /\ procs = NoProcs
  /\ db = NoDb

ChatBegin ==
  \E c \in Calls, msg \in ConcurrentMessages, r \in RandomDraws :
     /\ procs[c].pc = "idle"
     /\ procs' = [procs EXCEPT ![c] = begun(msg, r, RandomLevels)]
     /\ UNCHANGED store
     /\ ChatFrame

ChatReadCategories ==
  \E c \in Calls :
     /\ procs[c].pc = "categories"
     /\ procs' = [procs EXCEPT ![c] =
                    [pc |-> "services", message |-> procs[c].message,
                     categories |-> find(store, "categories", NoFault).docs]]
     /\ store' = afterFind(store, "categories")
     /\ ChatFrame

ChatReadServices ==
  \E c \in Calls :
     /\ procs[c].pc = "services"
     /\ procs' = [procs EXCEPT ![c] =
                    [pc |-> "chatResponses", message |-> procs[c].message,
                     categories |-> procs[c].categories,
                     services |-> find(store, "services", NoFault).docs]]
     /\ store' = afterFind(store, "services")
     /\ ChatFrame

ChatReadResponses ==
  \E c \in Calls, r \in RandomDraws :
     /\ procs[c].pc = "chatResponses"
     /\ procs' = [procs EXCEPT ![c] = replied(procs[c], store, r, RandomLevels)]
     /\ store' = afterFind(store, "chatResponses")
     /\ ChatFrame

\* the caller has its reply and may call again
ChatReturn ==
  \E c \in Calls :
     /\ procs[c].pc = "done"
     /\ procs' = [procs EXCEPT ![c] = Idle]
     /\ UNCHANGED store
     /\ ChatFrame

ChatNext ==
  \/ ChatBegin \/ ChatReadCategories \/ ChatReadServices \/ ChatReadResponses
  \/ ChatReturn

ConcurrentChatSpec == ChatInit /\ [][ChatNext]_vars

-----------------------------------------------------------------------------
(* worldPaymentService.verifyTransaction, await by await, over MongoDB      *)

FreshReference == [exists |-> TRUE, used |-> FALSE]

TransactionIds == {"tx-1", "tx-2"}

\* what the World API may answer for a transaction id
WorldResponses ==
  {[ok |-> FALSE]} \cup
  {[ok |-> TRUE, reference |-> ref, status |-> s] :
      ref \in Refs, s \in {"failed", "mined", "pending"}}

Failure(text) == [success |-> FALSE, message |-> text]

InvalidOrUsed == Failure("Referencia de pago inválida o ya utilizada")

DuplicateKey == "E11000 duplicate key error"

\* PaymentReference.findOne({ reference, used: false })
findOneUnused(references, reference) ==
  IF references[reference].exists /\ ~references[reference].used
  THEN [found |-> TRUE, reference |-> reference]
  ELSE [found |-> FALSE]

\* the checks on the World API's answer
checked(response, reference) ==
  IF ~response.ok THEN Failure("Error al verificar transacción con World Pay")
  ELSE IF response.reference # reference
  THEN Failure("La referencia de la transacción no coincide")
  ELSE IF response.status = "failed"
  THEN Failure("La transacción ha fallado en la blockchain")
  ELSE [success |-> TRUE]

\* Mutant of saveTransaction: the collection has no unique index on reference.
saveTransactionNoUniqueIndex(transactions, doc) ==
  [error |-> "none", transactions |-> Append(transactions, doc)]

\* txModel.save(): Transaction.reference is unique
saveTransaction(transactions, doc) ==
  IF \E i \in DOMAIN transactions : transactions[i].reference = doc.reference
  THEN [error |-> DuplicateKey, transactions |-> transactions]
  ELSE [error |-> "none", transactions |-> Append(transactions, doc)]

Verified(p, txModel) ==
  [pc |-> "done", reference |-> p.reference,
   result |-> [success |-> TRUE, transaction |-> txModel, status |-> p.status]]

Refused(reference, failure) ==
  [pc |-> "done", reference |-> reference, result |-> failure]

PaymentFrame == UNCHANGED <<store, entry, message, result, lookups, stages, failed, call>>

PaymentInit ==
  /\ store \in ChatStores
  /\ ChatIdle
  /\ call = NoCall
  /\ procs = NoProcs
  /\ db \in {[NoDb EXCEPT !.references = refs] :
               refs \in [Refs -> {NoReference, FreshReference}]}

\* await PaymentReference.findOne({ reference, used: false })
VerifyFind ==
  \E c \in Calls, reference \in Refs, transactionId \in TransactionIds :
     /\ procs[c].pc = "idle"
     /\ procs' = [procs EXCEPT ![c] =
                    IF findOneUnused(db.references, reference).found
                    THEN [pc |-> "fetch", reference |-> reference,
                          transactionId |-> transactionId]
                    ELSE Refused(reference, InvalidOrUsed)]
     /\ UNCHANGED db
     /\ PaymentFrame

\* await fetch(...) and the checks on its answer
VerifyFetch ==
  \E c \in Calls, response \in WorldResponses :
     /\ procs[c].pc = "fetch"
     /\ procs' = [procs EXCEPT ![c] =
                    IF checked(response, procs[c].reference).success
                    THEN [pc |-> "mark", reference |-> procs[c].reference,
                          transactionId |-> procs[c].transactionId,
                          status |-> response.status]
                    ELSE Refused(procs[c].reference,
                                 checked(response, procs[c].reference))]
     /\ UNCHANGED db
     /\ PaymentFrame

\* paymentRef.used = true; await paymentRef.save()
VerifyMark ==
  \E c \in Calls :
     /\ procs[c].pc = "mark"
     /\ IF db.references[procs[c].reference].exists
        THEN /\ db' = [db EXCEPT !.references[procs[c].reference].used = TRUE]
             /\ procs' = [procs EXCEPT ![c].pc = "store"]
        ELSE /\ UNCHANGED db
             /\ procs' = [procs EXCEPT ![c] =
                            Refused(procs[c].reference,
                                    Failure("No document found"))]
     /\ PaymentFrame

\* await txModel.save()
VerifyStore ==
  \E c \in Calls :
     /\ procs[c].pc = "store"
     /\ LET txModel == [reference |-> procs[c].reference,
                        transactionId |-> procs[c].transactionId,
                        status |-> IF procs[c].status = "mined"
                                   THEN "completed" ELSE "pending"]
            saved == saveTransaction(db.transactions, txModel)
        IN /\ db' = [db EXCEPT !.transactions = saved.transactions]
           /\ procs' = [procs EXCEPT ![c] =
                          IF saved.error # "none"
                          THEN Refused(procs[c].reference, Failure(saved.error))
                          ELSE IF txModel.status = "completed"
                          THEN [procs[c] EXCEPT !.pc = "project"]
                          ELSE Verified(procs[c], txModel)]
     /\ PaymentFrame

\* await Project.findById(...); project.status = 'completed'; await project.save()
VerifyProject ==
  \E c \in Calls :
     /\ procs[c].pc = "project"
     /\ db' = [db EXCEPT !.projects[procs[c].reference] = "completed"]
     /\ procs' = [procs EXCEPT ![c] =
                    Verified(procs[c],
                             [reference |-> procs[c].reference,
                              transactionId |-> procs[c].transactionId,
                              status |-> "completed"])]
     /\ PaymentFrame

\* the TTL index on createdAt removes a reference an hour after its creation
Expire ==
  \E ref \in Refs :
     /\ db.references[ref].exists
     /\ db' = [db EXCEPT !.references[ref] = NoReference]
     /\ UNCHANGED procs
     /\ PaymentFrame

PaymentNext ==
  \/ VerifyFind \/ VerifyFetch \/ VerifyMark \/ VerifyStore \/ VerifyProject
  \/ Expire

PaymentSpec == PaymentInit /\ [][PaymentNext]_vars

-----------------------------------------------------------------------------
(* jsonStore.insertOne, await by await, for several callers at once         *)

\* fs.writeFile replaces the whole file by the serialized array
writeData(files, collection, data) == [files EXCEPT ![collection] = File(data)]

\* the ids crypto.randomBytes may produce
GeneratedIds == {"id-a", "id-b"}

\* the document with its id (kept when it has one) and its timestamps
stamped(document, id) ==
  [updatedAt |-> "now"] @@ document @@ [id |-> id, createdAt |-> "now"]

InsertedCollections == {"users", "services"}

NewDocuments == { [name |-> <<"E", "v", "a">>], [id |-> 7, name |-> <<"L", "u", "i", "s">>] }

InsertStores ==
  { [categories |-> Missing, services |-> Missing, chatResponses |-> Missing,
     users |-> users] :
    users \in {Missing, UserFile,
               File(<< [id |-> 1, name |-> <<"A", "n", "a">>], [id |-> 2, name |-> <<"B", "e", "a">>] >>)} }

InsertFrame == UNCHANGED <<entry, message, result, lookups, stages, failed, call, db>>

InsertInit ==
  /\ store \in InsertStores
  /\ ChatIdle
  /\ call = NoCall
  /\ procs = NoProcs
  /\ db = NoDb

\* const data = await readData(collection), then the id, the timestamps and
\* data.push(document); a read failure other than ENOENT rejects the call
InsertRead ==
  \E c \in Calls, collection \in InsertedCollections,
     document \in NewDocuments, id \in GeneratedIds, fault \in Faults :
     /\ fault \in {NoFault, collection}
     /\ procs[c].pc = "idle"
     /\ procs' = [procs EXCEPT ![c] =
                    IF ~readData(store, collection, fault).ok
                    THEN [pc |-> "done", outcome |-> "rejected",
                          collection |-> collection]
                    ELSE [pc |-> "write", collection |-> collection,
                          document |-> stamped(document, id),
                          data |-> Append(readData(store, collection, fault).docs,
                                          stamped(document, id))]]
     /\ UNCHANGED store
     /\ InsertFrame

\* await writeData(collection, data); return document
InsertWrite ==
  \E c \in Calls :
     /\ procs[c].pc = "write"
     /\ store' = writeData(store, procs[c].collection, procs[c].data)
     /\ procs' = [procs EXCEPT ![c] =
                    [pc |-> "done", outcome |-> "resolved",
                     collection |-> procs[c].collection,
                     document |-> procs[c].document,
                     data |-> procs[c].data]]
     /\ InsertFrame

InsertNext == InsertRead \/ InsertWrite

InsertSpec == InsertInit /\ [][InsertNext]_vars

-----------------------------------------------------------------------------
(* Properties                                                              *)

Range(seq) == {seq[i] : i \in 1..Len(seq)}

ByService == entry = "processMessage"

ByController == entry = "sendMessage"

Replied == result.outcome = "reply"

IsString == message.type = "string"

\* the message as the handlers see it after normalizeText
Normalized == normalizeText(message.value)

\* the documents a successful find of the collection returns
Docs(collection) == readData(store, collection, NoFault).docs

\* The i-th smallest element of a finite set of numbers
Nth(S, i) == CHOOSE x \in S : Cardinality({y \in S : y < x}) = i - 1

Min(a, b) == IF a < b THEN a ELSE b

\* C1: every reply of processMessage carries at most MAX_RESULTS.CATEGORIES
\* categories, MAX_RESULTS.SERVICES services and MAX_RESULTS.SUGGESTIONS
\* suggestions, on every path.
C1_TruncationInvariant ==
  (ByService /\ Replied) =>
     /\ Has(result.reply, "categories") =>
           Len(result.reply.categories) <= MAX_RESULTS_CATEGORIES
     /\ Has(result.reply, "services") =>
           Len(result.reply.services) <= MAX_RESULTS_SERVICES
     /\ Len(result.reply.suggestions) <= MAX_RESULTS_SUGGESTIONS

\* C2: no category or service stored with active = false appears in the
\* categories or services of a reply, at either chat entry point.
C2_NoInactiveInReply ==
  (entry # "none" /\ Replied) =>
     /\ Has(result.reply, "categories") =>
           \A i \in 1..Len(result.reply.categories) :
              findById(Docs("categories"), result.reply.categories[i].id).active
     /\ Has(result.reply, "services") =>
           \A i \in 1..Len(result.reply.services) :
              findById(Docs("services"), result.reply.services[i].id).active

\* C3: an empty or non-string message is rejected at the chat entry point: no
\* reply is produced, no collection is looked up and nothing is matched.
C3_InvalidInputRejected ==
  (entry # "none" /\ (~IsString \/ message.value = <<>>)) =>
     /\ result.outcome # "reply"
     /\ lookups = <<>>
     /\ stages = {}

\* C4: for a non-empty string message whose lookups all succeed, processMessage
\* ends with exactly one reply, of type "text" or "search_results"; when nothing
\* matched, that reply is the default fallback text, never an error.
C4_TotalOnStrings ==
  (ByService /\ IsString /\ message.value # <<>> /\ failed = NoFault) =>
     /\ Replied
     /\ result.reply.type \in {"text", "search_results"}
     /\ (stages = {"canned", "categories", "services"}
           /\ result.reply.type = "text")
          => result.reply.message \in Range(DEFAULT_RESPONSES)

C4_Witness ==
  /\ ByService /\ message = Str(<<"x", "y", "z">>) /\ Replied
  /\ result.reply.type = "text"
  /\ stages = {"canned", "categories", "services"}
  /\ Docs("categories") # <<>>

\* C5: a greeting gets a "text" reply from the greeting pool with the non-empty
\* default suggestions, and no matching stage has been evaluated for it.
C5_GreetingShortCircuit ==
  (ByService /\ IsString /\ isGreeting(Normalized)) =>
     /\ Replied
     /\ result.reply.type = "text"
     /\ result.reply.message \in Range(Greetings)
     /\ result.reply.suggestions = DEFAULT_SUGGESTIONS
     /\ result.reply.suggestions # <<>>
     /\ stages = {}

C5_Witness ==
  /\ ByService /\ message = Str(<<"H", "o", "l", "a">>) /\ Replied
  /\ Len(Docs("chatResponses")) > 0 /\ Len(Docs("categories")) > 0

\* C6: a message that is both a greeting and a farewell gets the greeting
\* reply, not the farewell reply.
C6_GreetingBeforeFarewell ==
  (ByService /\ IsString /\ isGreeting(Normalized) /\ isFarewell(Normalized)) =>
     /\ Replied
     /\ result.reply.message \in Range(Greetings)
     /\ result.reply.message \notin Range(Farewells)
     /\ result.reply.suggestions = DEFAULT_SUGGESTIONS

C6_Witness ==
  /\ ByService /\ message = Str(<<"h", "i", " ", "b", "y", "e">>) /\ Replied
  /\ isGreeting(Normalized) /\ isFarewell(Normalized)

\* C7: a farewell that is no greeting gets a "text" reply from the farewell
\* pool with no suggestions, and neither the store nor any matching stage has
\* been consulted for it.
C7_FarewellReply ==
  (ByService /\ IsString /\ isFarewell(Normalized) /\ ~isGreeting(Normalized)) =>
     /\ Replied
     /\ result.reply.type = "text"
     /\ result.reply.message \in Range(Farewells)
     /\ result.reply.suggestions = <<>>
     /\ lookups = <<>>
     /\ stages = {}

C7_Witness ==
  /\ ByService /\ message = Str(<<"b", "y", "e">>) /\ Replied
  /\ Len(Docs("services")) > 0

NoCannedMatch == exactMatches(Docs("chatResponses"), Normalized) = <<>>

\* positions of the stored categories / services that pass the gate of processMessage
MatchingCategories ==
  {j \in 1..Len(Docs("categories")) :
      categoryMatches(Docs("categories")[j], Normalized)}

MatchingServices ==
  {j \in 1..Len(Docs("services")) :
      serviceMatches(Docs("services")[j], Normalized)}

\* C8: neither greeting nor farewell, no canned response, no active category
\* and no active service matches: the reply is a "text" reply with a message of
\* DEFAULT_RESPONSES and DEFAULT_SUGGESTIONS, whole or cut to the maximum.
C8_DefaultFallback ==
  (/\ ByService /\ IsString /\ failed = NoFault
   /\ ~isGreeting(Normalized) /\ ~isFarewell(Normalized)
   /\ NoCannedMatch /\ MatchingCategories = {} /\ MatchingServices = {}) =>
     /\ Replied
     /\ result.reply.type = "text"
     /\ result.reply.message \in Range(DEFAULT_RESPONSES)
     /\ result.reply.suggestions \in
          {DEFAULT_SUGGESTIONS, slice(DEFAULT_SUGGESTIONS, MAX_RESULTS_SUGGESTIONS)}

C8_Witness ==
  /\ ByService /\ message = Str(<<"x", "y", "z">>) /\ Replied
  /\ result.reply.message \in Range(DEFAULT_RESPONSES)
  /\ Len(Docs("categories")) > 1 /\ Len(Docs("services")) > 1
  /\ Len(Docs("chatResponses")) > 1

\* a keyword of the category occurs, normalized, as a substring of the text
KeywordOccurs(category, text) ==
  /\ nonEmptyList(category, "keywords")
  /\ \E i \in 1..Len(category.keywords) :
        includes(text, normalizeText(category.keywords[i]))

\* the first matching documents, in collection order, each summarised
FirstMatchingCategories ==
  [i \in 1..Min(MAX_RESULTS_CATEGORIES, Cardinality(MatchingCategories)) |->
     categorySummary(Docs("categories")[Nth(MatchingCategories, i)])]

FirstMatchingServices ==
  [i \in 1..Min(MAX_RESULTS_SERVICES, Cardinality(MatchingServices)) |->
     serviceSummary(Docs("services")[Nth(MatchingServices, i)], Docs("categories"))]

GateResultsByPosition ==
  /\ Replied
  /\ result.reply.type = "search_results"
  /\ result.reply.categories = FirstMatchingCategories
  /\ result.reply.services = FirstMatchingServices

KeywordCategoryReturned ==
  \A j \in 1..Len(Docs("categories")) :
     (/\ Docs("categories")[j].active
      /\ KeywordOccurs(Docs("categories")[j], Normalized)
      /\ Cardinality({i \in MatchingCategories : i < j}) < MAX_RESULTS_CATEGORIES)
     => /\ GateResultsByPosition
        /\ categorySummary(Docs("categories")[j]) \in Range(result.reply.categories)

\* C9 as stated: no canned response matches and an active category has a
\* keyword occurring in the normalized message: the reply is "search_results",
\* holds that category (unless MAX_RESULTS.CATEGORIES matching ones precede it),
\* and its categories and services are the first matching active documents in
\* collection order.
C9_KeywordCategoryFound ==
  (ByService /\ IsString /\ failed = NoFault /\ NoCannedMatch)
     => KeywordCategoryReturned

\* C9 amended: the same for a message that is neither a greeting nor a
\* farewell and whose normalized form is not empty.
C9_KeywordCategoryFoundInQuery ==
  (/\ ByService /\ IsString /\ failed = NoFault /\ NoCannedMatch
   /\ ~isGreeting(Normalized) /\ ~isFarewell(Normalized) /\ Normalized # <<>>)
     => KeywordCategoryReturned

C9_Witness ==
  /\ ByService /\ message = Str(<<"w", "e", "b", " ", "a", "p", "p">>) /\ Replied /\ NoCannedMatch
  /\ result.reply.type = "search_results"
  /\ Cardinality(MatchingCategories) > MAX_RESULTS_CATEGORIES
  /\ \E j \in 1..Len(Docs("categories")) :
        /\ KeywordOccurs(Docs("categories")[j], Normalized)
        /\ categorySummary(Docs("categories")[j]) \in Range(result.reply.categories)
  /\ \E j \in 1..Len(Docs("services")) : ~Docs("services")[j].active

\* C10: a failed lookup during processMessage rejects the call with the read's
\* own error; no reply is built from an empty stand-in for the collection.
C10_StorageFailurePropagates ==
  (ByService /\ failed # NoFault) =>
     /\ result = Thrown("EIO")
     /\ ~Replied
     /\ stages = {}

C10_Witness ==
  /\ ByService /\ failed = "chatResponses" /\ result.outcome = "error"
  /\ message = Str(<<"x", "y", "z">>)

-----------------------------------------------------------------------------
(* Properties of the text functions                                        *)

Calling(f) == call.fn = f

UpperCase == DOMAIN LowerCaseOf

Accented == DOMAIN Decomposition

\* the unaccented lower-case letter of a letter
BaseLetter ==
  ("A" :> "a") @@ ("b" :> "b") @@ ("é" :> "e") @@ ("É" :> "e") @@ ("Ñ" :> "n")

\* the maximal runs of non-space characters of a text, in order
Tokens(text) == SelectSeq(splitWhitespace(text), LAMBDA w : w # <<>>)

\* C11: normalizing the result of normalizeText again changes nothing.
C11_NormalizeIdempotent ==
  Calling("normalizeText") => normalizeText(call.out) = call.out

C11_Witness ==
  /\ Calling("normalizeText")
  /\ call.text = <<"U+0301", " ", "É">>
  /\ call.out = <<"e">>

\* C12: the result of normalizeText has no upper-case letter, no combining
\* mark, no accented letter (a text of letters becomes its base letters) and no
\* space at either end; the empty string gives the empty string.
C12_NormalizedForm ==
  Calling("normalizeText") =>
     /\ \A i \in 1..Len(call.out) :
           call.out[i] \notin UpperCase \cup CombiningMarks \cup Accented
     /\ call.out # <<>> => (Head(call.out) # Space /\ call.out[Len(call.out)] # Space)
     /\ (\A i \in 1..Len(call.text) : call.text[i] \in DOMAIN BaseLetter) =>
           call.out = [i \in 1..Len(call.text) |-> BaseLetter[call.text[i]]]
     /\ call.text = <<>> => call.out = <<>>

C12_Witness ==
  /\ Calling("normalizeText")
  /\ call.text = <<"É", "Ñ", " ">>
  /\ call.out = <<"e", "n">>

\* C13: on a normalized text removeStopWords returns the tokens that are no
\* stop words, in their order, joined by single spaces; applying it to its own
\* result changes nothing.
C13_StopWordsRemoved ==
  (Calling("removeStopWords") /\ call.text = normalizeText(call.text)) =>
     /\ Tokens(call.out) = SelectSeq(Tokens(call.text), LAMBDA w : w \notin STOP_WORDS)
     /\ call.out = joinSpace(Tokens(call.out))
     /\ removeStopWords(call.out) = call.out

C13_Witness ==
  /\ Calling("removeStopWords")
  /\ call.text = <<"w", "e", "b", " ", " ", "d", "e", " ", " ", "s", "i", "t", "i", "o">>
  /\ call.out = <<"w", "e", "b", " ", "s", "i", "t", "i", "o">>

\* C14: with an empty text, or a missing or empty keyword list, hasKeywords
\* returns false and calculateRelevance returns 0, whatever the options.
C14_EmptyArguments ==
  (/\ call.fn \in {"hasKeywords", "calculateRelevance"}
   /\ (call.text = <<>> \/ ~call.keywords.given \/ call.keywords.list = <<>>)) =>
     /\ Calling("hasKeywords") => call.out = FALSE
     /\ Calling("calculateRelevance") => call.out = Ratio(0, 1)

C14_Witness ==
  /\ Calling("hasKeywords")
  /\ call.text = <<>>
  /\ call.keywords = Given(<<<<"w", "e", "b">>, <<"w", "e", "b", "s">>>>)
  /\ call.options.minMatches = RELATED_TERM
  /\ call.out = FALSE

\* the text the keywords are looked for in: calculateRelevance always removes
\* the stop words, hasKeywords only when asked to
CleanedText ==
  IF Calling("calculateRelevance") \/ call.options.removeStopWords
  THEN removeStopWords(normalizeText(call.text))
  ELSE normalizeText(call.text)

\* the call went through its loop over the keywords
Scored ==
  /\ call.fn \in {"hasKeywords", "calculateRelevance"}
  /\ call.text # <<>> /\ call.keywords.given /\ call.keywords.list # <<>>

Keyword(i) == normalizeText(call.keywords.list[i])

Tiers == {0, RELATED_TERM, PARTIAL_MATCH, EXACT_MATCH}

\* C15: in calculateRelevance every keyword whose normalized form occurs in the
\* normalized text adds at least EXACT_MATCH, so the result is at least
\* EXACT_MATCH as soon as one keyword occurs in the text.
C15_ExactSubstringScores ==
  (Scored /\ Calling("calculateRelevance")) =>
     \A i \in 1..Len(call.added) :
        includes(normalizeText(call.text), Keyword(i)) =>
           /\ atLeast(call.added[i], Ratio(EXACT_MATCH, 1))
           /\ atLeast(call.out, Ratio(EXACT_MATCH, 1))

\* C16: in hasKeywords and calculateRelevance every keyword adds one of 0,
\* RELATED_TERM, PARTIAL_MATCH and EXACT_MATCH, and the total is the sum of
\* what the keywords added.
C16_OneTierPerKeyword ==
  Scored =>
     /\ \A i \in 1..Len(call.added) :
           \E tier \in Tiers : sameScore(call.added[i], Ratio(tier, 1))
     /\ Calling("calculateRelevance") => sameScore(call.out, sumScores(call.added))
     /\ Calling("hasKeywords") =>
           call.out = atLeast(sumScores(call.added), Ratio(call.options.minMatches, 1))

\* the threshold a partial match has to reach, in tenths
Threshold ==
  IF Calling("hasKeywords") THEN call.options.matchThreshold ELSE MATCH_THRESHOLD

\* C17: a multi-word keyword that does not occur in the text and has fewer of
\* its parts in the text than the threshold asks for adds nothing for a
\* partial match: what it adds is 0 or RELATED_TERM.
C17_PartialNeedsThreshold ==
  Scored =>
     \A i \in 1..Len(call.added) :
        (/\ hasSpace(Keyword(i))
         /\ ~includes(CleanedText, Keyword(i))
         /\ 10 * partMatches(CleanedText, Keyword(i))
               < Threshold * Len(splitWhitespace(Keyword(i)))) =>
           \/ sameScore(call.added[i], Ratio(0, 1))
           \/ sameScore(call.added[i], Ratio(RELATED_TERM, 1))

\* C18: with the default options hasKeywords returns true exactly when
\* calculateRelevance of the same text and keywords is at least 1.
C18_SameScoring ==
  (Calling("hasKeywords") /\ call.options = DefaultOptions) =>
     call.out = atLeast(calculateRelevanceOf(call.text, call.keywords),
                        Ratio(DefaultOptions.minMatches, 1))

-----------------------------------------------------------------------------
(* Properties of the canned-response stage                                 *)

\* the canned responses that qualify for the message in processMessage, in
\* collection order, and the relevance of each
Qualifying == exactMatches(Docs("chatResponses"), Normalized)

Score(i) == responseRelevance(Qualifying[i], Normalized)

\* the first of the qualifying responses with the highest relevance
Best ==
  CHOOSE j \in 1..Len(Qualifying) :
     /\ \A i \in 1..Len(Qualifying) : Score(i) <= Score(j)
     /\ \A i \in 1..(j - 1) : Score(i) < Score(j)

\* the canned response sendMessage would answer with
ControllerResponse == ctlFirstResponse(Docs("chatResponses"), Normalized)

\* C19: at both entry points a message that gets past the greeting and
\* farewell checks and matches a canned response is answered with the text of
\* a matching canned response, never with the search results' fixed message,
\* whether or not categories or services match too.
C19_CannedBeforeSearch ==
  /\ (/\ ByService /\ IsString /\ failed = NoFault
      /\ ~isGreeting(Normalized) /\ ~isFarewell(Normalized)
      /\ Qualifying # <<>>) =>
        /\ Replied
        /\ \E i \in 1..Len(Qualifying) : result.reply.message = Qualifying[i].text
        /\ result.reply.message # FoundMessage
  /\ (/\ ByController /\ IsString /\ message.value # <<>> /\ failed = NoFault
      /\ ~isGreeting(Normalized)
      /\ ControllerResponse # Null) =>
        /\ Replied
        /\ result.reply.message = ControllerResponse.text
        /\ result.reply.message # FoundMessage

\* C20: the canned reply of processMessage is built from the qualifying
\* response with the highest relevance, and from the first of them in
\* collection order when several have the highest relevance.
C20_BestCannedResponse ==
  (/\ ByService /\ IsString /\ failed = NoFault
   /\ ~isGreeting(Normalized) /\ ~isFarewell(Normalized)
   /\ Qualifying # <<>>) =>
     /\ Replied
     /\ result.reply.message = Qualifying[Best].text
     /\ result.reply.suggestions = Qualifying[Best].suggestions

C20_Witness ==
  /\ ByService /\ message = Str(<<"w", "e", "b", " ", "a", "p", "p">>) /\ Replied
  /\ Len(Qualifying) = 2
  /\ Score(1) < Score(2)
  /\ result.reply.message = Qualifying[2].text

\* processMessage got as far as the canned responses
CannedStageReached ==
  /\ ByService /\ IsString /\ failed = NoFault
  /\ ~isGreeting(Normalized) /\ ~isFarewell(Normalized)

\* the stored canned responses as ChatResponse models, in collection order
Responses ==
  [i \in 1..Len(Docs("chatResponses")) |-> ChatResponse(Docs("chatResponses")[i])]

\* the weighted keyword relevance of the message against a response's
\* keywords, times the response's priority
WeightedScore(response) ==
  LET relevance == calculateRelevance(Normalized, response.keywords)
  IN  Ratio(relevance.num * response.priority, relevance.den)

\* C21: an active canned response qualifies exactly when its weighted keyword
\* relevance times its priority is at least the minimum score, and that
\* product is the score it is ranked by.
C21_WeightedScoreQualifies ==
  CannedStageReached =>
     /\ Replied
     /\ (stages = {"canned"}) <=>
           (\E i \in 1..Len(Responses) :
               /\ Responses[i].active
               /\ atLeast(WeightedScore(Responses[i]), Ratio(MIN_SCORE, 1)))
     /\ \A i \in 1..Len(Qualifying) :
           sameScore(Ratio(EXACT_MATCH * Score(i), 1), WeightedScore(Qualifying[i]))

\* the stored document of the canned response the reply is built from
SelectedDoc == findById(Docs("chatResponses"), Qualifying[Best].id)

\* C22: a reply built from a canned response that defines no suggestions
\* carries the default suggestions, never an empty list.
C22_DefaultSuggestionsForCanned ==
  (CannedStageReached /\ Qualifying # <<>> /\ ~Has(SelectedDoc, "suggestions")) =>
     /\ Replied
     /\ result.reply.suggestions = DEFAULT_SUGGESTIONS
     /\ result.reply.suggestions # <<>>

\* the ids of the list that resolve to a stored, active document, in list order
Resolving(ids, docs) ==
  SelectSeq(ids, LAMBDA id : \E j \in 1..Len(docs) : docs[j].id = id /\ docs[j].active)

Stored(docs, id) == docs[CHOOSE j \in 1..Len(docs) : docs[j].id = id]

LinkedCategories ==
  LET ids == Resolving(Qualifying[Best].categoryIds, Docs("categories"))
  IN  [i \in 1..Len(ids) |-> categorySummary(Stored(Docs("categories"), ids[i]))]

LinkedServices ==
  LET ids == Resolving(Qualifying[Best].serviceIds, Docs("services"))
  IN  [i \in 1..Len(ids) |->
         serviceSummary(Stored(Docs("services"), ids[i]), Docs("categories"))]

\* C23: the categories and services of a canned reply are the stored, active
\* documents its categoryIds and serviceIds name, in the order of the id lists;
\* with none of them, the reply carries no categories and no services.
C23_LinkedRecordsResolved ==
  (CannedStageReached /\ Qualifying # <<>>) =>
     /\ Replied
     /\ IF LinkedCategories = <<>> /\ LinkedServices = <<>>
        THEN ~Has(result.reply, "categories") /\ ~Has(result.reply, "services")
        ELSE /\ result.reply.categories = LinkedCategories
             /\ result.reply.services = LinkedServices

C23_Witness ==
  /\ ByService /\ message = Str(<<"w", "e", "b">>) /\ Replied /\ stages = {"canned"}
  /\ Qualifying[Best].id = 1
  /\ Len(Docs("categories")) >= 2 /\ ~Docs("categories")[2].active
  /\ Len(Docs("services")) = 1
  /\ Len(result.reply.categories) = 3
  /\ Len(result.reply.services) = 1

\* C24: a "search_results" reply of gate matching, at either entry point,
\* carries suggestions, one of them made from the first matched category when
\* a category matched.
C24_SearchSuggestions ==
  (/\ entry # "none" /\ Replied
   /\ result.reply.type = "search_results"
   /\ result.reply.message = FoundMessage) =>
     /\ Has(result.reply, "suggestions")
     /\ result.reply.categories # <<>> =>
           MoreOf(result.reply.categories[1].name) \in Range(result.reply.suggestions)

-----------------------------------------------------------------------------
(* Further properties of the text functions                                *)

\* the keyword list of the call without its last keyword
EarlierKeywords == SubSeq(call.keywords.list, 1, Len(call.keywords.list) - 1)

\* C25: calculateRelevance is never negative, and a keyword added at the end
\* of the list never lowers it.
C25_RelevanceMonotone ==
  (Calling("calculateRelevance") /\ call.keywords.given /\ call.keywords.list # <<>>) =>
     /\ atLeast(call.out, calculateRelevance(call.text, EarlierKeywords))
     /\ atLeast(calculateRelevance(call.text, EarlierKeywords), Ratio(0, 1))
     /\ call.out.den > 0

C25_Witness ==
  /\ Calling("calculateRelevance")
  /\ call.text = <<"w", "e", "b">>
  /\ call.keywords = Given(<<<<"d", "e", " ", "w", "e", "b">>, <<"w", "e", "b">>>>)
  /\ ~sameScore(call.out, calculateRelevance(call.text, EarlierKeywords))
  /\ ~sameScore(calculateRelevance(call.text, EarlierKeywords), Ratio(0, 1))

\* C27: every phrase of GREETING_PHRASES, sent as a message, is recognised as
\* a greeting, and every phrase of FAREWELL_PHRASES as a farewell.
C27_ConfiguredPhrasesRecognised ==
  Calling("classifyIntent") =>
     /\ call.text \in Range(GREETING_PHRASES) => call.greeting
     /\ call.text \in Range(FAREWELL_PHRASES) => call.farewell

\* C28: for a text of whitespace only hasKeywords returns false and
\* calculateRelevance returns 0, whatever the keywords.
C28_WhitespaceMatchesNothing ==
  (/\ call.fn \in {"hasKeywords", "calculateRelevance"}
   /\ call.text # <<>> /\ normalizeText(call.text) = <<>>) =>
     /\ Calling("hasKeywords") => call.out = FALSE
     /\ Calling("calculateRelevance") => sameScore(call.out, Ratio(0, 1))

-----------------------------------------------------------------------------
(* Properties of concurrent calls                                          *)

\* C26: no step of any processMessage call changes the stored collections,
\* and whatever other calls ran before or in between, a call that finishes
\* has the result it has when it runs alone on the same store.
C26_NoSharedState ==
  [][/\ store' = store
     /\ \A c \in Calls :
           procs'[c].pc = "done" =>
              \E r \in RandomDraws :
                 procs'[c].result =
                    processMessage(store', procs'[c].message, NoFault, r,
                                   RandomLevels).result]_vars

C26_Witness ==
  /\ procs["a"].pc = "done"
  /\ procs["a"].result.outcome = "reply"
  /\ procs["a"].result.reply.type = "search_results"
  /\ procs["b"].pc = "chatResponses"
  /\ procs["b"].message # procs["a"].message
  /\ procs["b"].categories # <<>>


\* the transactions stored for a payment reference
StoredFor(ref) == {i \in DOMAIN db.transactions : db.transactions[i].reference = ref}

\* the calls that returned success for a payment reference
SucceededFor(ref) ==
  {c \in Calls : /\ procs[c].pc = "done"
                 /\ procs[c].reference = ref
                 /\ procs[c].result.success}

\* C29: for every payment reference, whatever the order or interleaving of
\* the verifyTransaction calls, at most one call returns success and at
\* most one transaction is stored, and a call that looks the reference up
\* after it was marked used returns the invalid-or-already-used failure.
C29_SingleUse ==
  /\ [](\A ref \in Refs : /\ Cardinality(SucceededFor(ref)) <= 1
                          /\ Cardinality(StoredFor(ref)) <= 1)
  /\ [][\A c \in Calls :
           (/\ procs[c].pc = "idle"
            /\ procs'[c].pc # "idle"
            /\ db.references[procs'[c].reference].used)
           => /\ procs'[c].pc = "done"
              /\ procs'[c].result = InvalidOrUsed]_vars

\* two calls raced for one reference: one succeeded, the other was stopped
\* by the unique index after both had found the reference unused
C29_Witness ==
  /\ procs["a"].pc = "done"
  /\ procs["b"].pc = "done"
  /\ procs["a"].reference = procs["b"].reference
  /\ procs["a"].result.success
  /\ procs["b"].result = Failure(DuplicateKey)
  /\ Cardinality(StoredFor(procs["a"].reference)) = 1


\* the calls of insertOne that completed on a collection
Inserted(collection) ==
  {c \in Calls : /\ procs[c].pc = "done"
                 /\ procs[c].outcome = "resolved"
                 /\ procs[c].collection = collection}

\* C30: once two insertOne calls on one collection have both completed, in
\* whatever order their reads and writes ran, the collection holds both
\* inserted documents and every document that either call had read.
C30_NoLostWrite ==
  \A collection \in InsertedCollections :
     Cardinality(Inserted(collection)) = 2 =>
        \A c \in Inserted(collection) :
           \A i \in DOMAIN procs[c].data :
              procs[c].data[i] \in Range(store[collection].docs)

====
